---- MODULE Spec2Model ----
(***************************************************************************)
(* A model of flaskext/kvsession.py: server-side sessions whose payload    *)
(* lives in a key-value store and whose cookie is the signed store key.    *)
(*                                                                         *)
(* Strings (keys, MACs, tokens) are sequences of one-character strings, so *)
(* that '%x' formatting, int(s, 16), rsplit('_', 1) and key_regex are      *)
(* computed character by character, as the code computes them.             *)
(*                                                                         *)
(* Python 2 semantics are assumed throughout (the module uses              *)
(* hmac.new(str, str, ...), flask.Session and dict.keys() as a list).      *)
(***************************************************************************)
EXTENDS Integers, Sequences, FiniteSets, TLC

(***************************************************************************)
(* Bounds of the model.                                                    *)
(***************************************************************************)
\* the clock starts here (seconds since the epoch)
Epoch0 == 9
\* the clock advances at most this many seconds
MaxTick == 2
\* number of random bits of a session id (SESSION_KEY_BITS in the model)
KeyBits == 1
\* number of session entries the store holds at a time
MaxEntries == 1
\* largest SESSION_KEY_BITS for which keys are generated on their own
MaxBits == 5

VARIABLES
    store,   \* the key-value store: a function from keys to payloads
    now,     \* time.time(), in whole seconds
    sess,    \* the session object of each request context
    out,     \* the last session operation, the token it was given or
             \* returned, and the exception it raised ("none": it returned)
    sweep,   \* position of a running cleanup_sessions call
    app      \* the Flask application and its KVSession extension object

vars == <<store, now, sess, out, sweep, app>>

(***************************************************************************)
(* Characters and strings.                                                 *)
(***************************************************************************)
HexDigits == <<"0", "1", "2", "3", "4", "5", "6", "7",
               "8", "9", "a", "b", "c", "d", "e", "f">>

\* every character that occurs in a string of the model; "\n" is a newline
Chars == HexDigits \o <<"_", "-", "G", "\n">>

IsHexDigit(c) == \E i \in 1..16 : HexDigits[i] = c

HexValue(c) == (CHOOSE i \in 1..16 : HexDigits[i] = c) - 1

CharCode(c) == CHOOSE i \in 1..Len(Chars) : Chars[i] = c

IsHexString(s) == Len(s) > 0 /\ \A i \in 1..Len(s) : IsHexDigit(s[i])

\* '%x' % n for n >= 0: lowercase hexadecimal, no prefix, no padding
RECURSIVE HexOfNat(_)
HexOfNat(n) ==
    IF n < 16 THEN <<HexDigits[n + 1]>>
    ELSE HexOfNat(n \div 16) \o <<HexDigits[(n % 16) + 1]>>

\* '%d' % n: the same in decimal
RECURSIVE DecOfNat(_)
DecOfNat(n) ==
    IF n < 10 THEN <<HexDigits[n + 1]>>
    ELSE DecOfNat(n \div 10) \o <<HexDigits[(n % 10) + 1]>>

FormatDecimal(n) == IF n < 0 THEN <<"-">> \o DecOfNat(-n) ELSE DecOfNat(n)

\* '%x' % n for any integer: a negative number is formatted with a minus sign
FormatHex(n) == IF n < 0 THEN <<"-">> \o HexOfNat(-n) ELSE HexOfNat(n)

\* int(s, 16) for a string of hexadecimal digits
RECURSIVE ParseHex(_)
ParseHex(s) ==
    IF Len(s) = 0 THEN 0
    ELSE 16 * ParseHex(SubSeq(s, 1, Len(s) - 1)) + HexValue(s[Len(s)])

\* positions of the underscores of a string
Underscores(s) == {i \in 1..Len(s) : s[i] = "_"}

Max(S) == CHOOSE x \in S : \A y \in S : y <= x

(***************************************************************************)
(* generate_session_key                                                    *)
(***************************************************************************)
\* the values serialize is given as expires: None, an integer UNIX timestamp,
\* a float UNIX timestamp (held as its number of half seconds, so that
\* FloatExpires(21) is 10.5), or a datetime (held as the UTC instant it
\* denotes, in epoch seconds)
NoExpires == [kind |-> "none", v |-> 0]
IntExpires(n) == [kind |-> "int", v |-> n]
FloatExpires(h) == [kind |-> "float", v |-> h]
DatetimeExpires(n) == [kind |-> "datetime", v |-> n]

\* the integer '%x' formats a float as (Python 2): truncated towards zero
FloatToInt(h) == IF h < 0 THEN -((-h) \div 2) ELSE h \div 2

\* calendar.timegm(expires.utctimetuple())
TimeGm(expires) == expires.v

\* random_source.getrandbits(bits)
RandBits(bits) == 0..(2^bits - 1)

\* lines 36-39: the number that is formatted as the expiry of the key
ExpiryOf(expires) ==
    IF expires.kind = "none" THEN 0
    ELSE IF expires.kind = "int" THEN expires.v
    ELSE IF expires.kind = "float" THEN FloatToInt(expires.v)
    ELSE TimeGm(expires)

\* '%x_%x' % (idbits, expires)
generate_session_key(idbits, expires) ==
    FormatHex(idbits) \o <<"_">> \o FormatHex(ExpiryOf(expires))

(***************************************************************************)
(* KVSession.key_regex: '^[0-9a-f]+_(?P<expires>[0-9a-f]+)$', used with    *)
(* match().  In Python '$' also matches just before a trailing newline.    *)
(***************************************************************************)
\* the string without one trailing newline
ChompNewline(s) ==
    IF Len(s) > 0 /\ s[Len(s)] = "\n" THEN SubSeq(s, 1, Len(s) - 1) ELSE s

key_regex_match(key) ==
    LET body == ChompNewline(key)
        us == Underscores(body)
    IN  /\ Cardinality(us) = 1
        /\ LET i == CHOOSE j \in us : TRUE
           IN  /\ IsHexString(SubSeq(body, 1, i - 1))
               /\ IsHexString(SubSeq(body, i + 1, Len(body)))

\* m.group('expires') of a key that matches
key_regex_expires(key) ==
    LET body == ChompNewline(key)
        i == CHOOSE j \in Underscores(body) : TRUE
    IN  SubSeq(body, i + 1, Len(body))

\* int(m.group('expires')): the digits read in base ten
key_expiry_time_base10(key) ==
    LET str == key_regex_expires(key)
        val[n \in 0..Len(str)] ==
            IF n = 0 THEN 0 ELSE 10 * val[n - 1] + HexValue(str[n])
    IN  val[Len(str)]

\* int(m.group('expires'), 16)
key_expiry_time(key) == ParseHex(key_regex_expires(key))

(***************************************************************************)
(* hmac.new(secret, key, hash_method).hexdigest()                          *)
(*                                                                         *)
(* The MAC is a deterministic function of secret and key that is           *)
(* collision-free on the strings of the model, rendered in lowercase hex.  *)
(***************************************************************************)
Secrets == <<"s3cr3t", "rotated">>

\* app.secret_key
SecretKey == Secrets[1]

SecretIndex(secret) == CHOOSE i \in 1..Len(Secrets) : Secrets[i] = secret

RECURSIVE StrNum(_)
StrNum(s) ==
    IF Len(s) = 0 THEN 0
    ELSE StrNum(SubSeq(s, 1, Len(s) - 1)) * (Len(Chars) + 1) + CharCode(s[Len(s)])

\* a digest of the key alone, which the secret does not enter
HexDigestUnkeyed(secret, key) == HexOfNat(StrNum(key))

HexDigest(secret, key) ==
    HexOfNat(StrNum(key) * Len(Secrets) + SecretIndex(secret) - 1)

\* '%s_%s' % (key, mac.hexdigest())
SignedToken(secret, key) == key \o <<"_">> \o HexDigest(secret, key)

(***************************************************************************)
(* The session mapping and flask.Session's own serialization.              *)
(*                                                                         *)
(* flask.Session (werkzeug's SecureCookie) is not part of this repository. *)
(* Its serialize(expires) encodes the mapping, signed with the session's   *)
(* secret, and records the desired expiration in the payload; its          *)
(* unserialize(sdata, secret) yields the empty mapping for '' and for a    *)
(* payload that does not verify or whose expiration has passed.            *)
(***************************************************************************)
\* a mapping is a set of <<name, value>> pairs with distinct names
EmptyMapping == {}
\* the mappings the application of the model writes
AppMappings == { EmptyMapping, {<<"cart", "x">>, <<"user", "bob">>} }

\* the names of a mapping in sorted order; '_expires' is the entry the base
\* class keeps the expiration in
FieldOrder == <<"_expires", "cart", "user">>

Keys(m) == {p[1] : p \in m}

\* sorted(self.items())
RECURSIVE SortedItemsFrom(_, _)
SortedItemsFrom(m, i) ==
    IF i > Len(FieldOrder) THEN <<>>
    ELSE LET here == {p \in m : p[1] = FieldOrder[i]}
         IN  (IF here = {} THEN <<>> ELSE <<CHOOSE p \in here : TRUE>>)
             \o SortedItemsFrom(m, i + 1)

SortedItems(m) == SortedItemsFrom(m, 1)

\* sdata = '' of unserialize
EmptySData == [kind |-> "empty", items |-> <<>>, secret |-> ""]

\* an entry of the store that no session wrote
ForeignData == [kind |-> "foreign", items |-> <<>>, secret |-> ""]

\* Python truth value of the expires argument
Truthy(expires) ==
    \/ expires.kind = "datetime"
    \/ expires.kind = "int" /\ expires.v # 0
    \/ expires.kind = "float" /\ expires.v # 0

\* the mapping without the base class's '_expires' entry
WithoutExpires(m) == {p \in m : p[1] # "_expires"}

\* the base class's serialize writes self['_expires'] when expires is truthy:
\* the mapping of the session object after serialize(expires)
WithExpires(m, expires) ==
    IF Truthy(expires)
    THEN WithoutExpires(m) \cup {<<"_expires", ExpiryOf(expires)>>}
    ELSE m

\* super(Session, self).serialize(expires): the items of the mapping, signed
\* with the session's secret_key
SuperSerialize(data, secret, expires) ==
    [kind |-> "cookie", items |-> SortedItems(WithExpires(data, expires)),
     secret |-> secret]

\* super(Session, cls).unserialize(sdata, secret_key), at time t: nothing
\* for a payload that does not verify or whose '_expires' has passed, else
\* the items without '_expires'
SuperUnserialize(sdata, secret, t) ==
    LET m == {sdata.items[i] : i \in 1..Len(sdata.items)}
    IN  IF sdata.kind # "cookie" THEN EmptyMapping
        ELSE IF sdata.secret # secret THEN EmptyMapping
        ELSE IF \E p \in m : p[1] = "_expires" /\ t > p[2] THEN EmptyMapping
        ELSE WithoutExpires(m)

(***************************************************************************)
(* The key-value store (simplekv.KeyValueStore, an external collaborator). *)
(***************************************************************************)
\* put(key, data): overwrites; returns the key
StorePut(st, key, data) ==
    [k \in (DOMAIN st) \cup {key} |-> IF k = key THEN data ELSE st[k]]

\* delete(key): no error when the key is absent
StoreDelete(st, key) == [k \in (DOMAIN st) \ {key} |-> st[k]]

\* keys()
StoreKeys(st) == DOMAIN st

\* the exception delete(key) raises: none, also when the key is absent
StoreDeleteError(st, key) == "none"

\* get(key) raises KeyError when the key is absent
StoreHas(st, key) == key \in DOMAIN st

(***************************************************************************)
(* Session.serialize and Session.unserialize as functions of the store.    *)
(***************************************************************************)
\* the key serialize stores the payload under (what store.put returns)
SerializeKey(idbits, expires) == generate_session_key(idbits, expires)

\* a serialize that does not hand expires on to the base class
SerializeStoreNoExpires(st, data, secret, idbits, expires) ==
    StorePut(st, SerializeKey(idbits, expires),
             SuperSerialize(data, secret, NoExpires))

\* a serialize that puts the payload under the random id alone, while the
\* token carries the whole key
SerializeStoreUnderId(st, data, secret, idbits, expires) ==
    StorePut(st, FormatHex(idbits), SuperSerialize(data, secret, expires))

\* a serialize that keeps one session entry: the put replaces the store's
\* other keys of the form key_regex matches
SerializeStoreEvicting(st, data, secret, idbits, expires) ==
    StorePut([k \in {x \in StoreKeys(st) : ~key_regex_match(x)} |-> st[k]],
             SerializeKey(idbits, expires),
             SuperSerialize(data, secret, expires))

\* the store after serialize
SerializeStore(st, data, secret, idbits, expires) ==
    StorePut(st, SerializeKey(idbits, expires),
             SuperSerialize(data, secret, expires))

\* a token whose MAC covers the random id alone, not the whole key
SerializeTokenIdMac(secret, idbits, expires) ==
    SerializeKey(idbits, expires) \o <<"_">>
        \o HexDigest(secret, FormatHex(idbits))

\* the token serialize returns: the key, signed
SerializeToken(secret, idbits, expires) ==
    SignedToken(secret, SerializeKey(idbits, expires))

\* string.rsplit('_', 1) yields two parts only when there is an underscore
CanSplit(string) == Underscores(string) # {}

\* key, mac_hexdigest = string.rsplit('_', 1)
TokenKey(string) == SubSeq(string, 1, Max(Underscores(string)) - 1)
TokenMac(string) == SubSeq(string, Max(Underscores(string)) + 1, Len(string))

\* mac.hexdigest() == mac_hexdigest
MacOkay(string, secret) ==
    HexDigest(secret, TokenKey(string)) = TokenMac(string)

\* a load that does not look at the MAC
LoadSDataUnchecked(st, string, secret) ==
    IF StoreHas(st, TokenKey(string)) THEN st[TokenKey(string)] ELSE EmptySData

\* sdata as unserialize leaves it before decoding
LoadSData(st, string, secret) ==
    IF MacOkay(string, secret) /\ StoreHas(st, TokenKey(string))
    THEN st[TokenKey(string)]
    ELSE EmptySData

\* an unserialize that sets __kvstore_key only where store.get succeeded
UnserializeSessionUnbound(st, string, secret, t) ==
    LET found == MacOkay(string, secret) /\ StoreHas(st, TokenKey(string))
    IN  [data   |-> SuperUnserialize(LoadSData(st, string, secret), secret, t),
         hasKey |-> found,
         key    |-> IF found THEN TokenKey(string) ELSE <<>>,
         secret |-> secret,
         origin |-> IF MacOkay(string, secret) THEN "verified" ELSE "rejected"]

\* the session unserialize returns for a string that can be split:
\* lines 108-109 decode sdata and set __kvstore_key, whatever the MAC said
UnserializeSession(st, string, secret, t) ==
    [data   |-> SuperUnserialize(LoadSData(st, string, secret), secret, t),
     hasKey |-> TRUE,
     key    |-> TokenKey(string),
     secret |-> secret,
     origin |-> IF MacOkay(string, secret) THEN "verified" ELSE "rejected"]

\* an unserialize whose store.get is not wrapped in try/except KeyError
UnserializeErrorUncaught(st, string, secret) ==
    IF ~CanSplit(string) THEN "ValueError"
    ELSE IF MacOkay(string, secret) /\ ~StoreHas(st, TokenKey(string))
    THEN "KeyError"
    ELSE "none"

\* the exception unserialize raises: the tuple assignment of line 93 raises
\* ValueError when rsplit returns one part; the KeyError of store.get is
\* caught (lines 101-105)
UnserializeError(st, string, secret) ==
    IF ~CanSplit(string) THEN "ValueError" ELSE "none"

(***************************************************************************)
(* KVSession.cleanup_sessions                                              *)
(***************************************************************************)
\* an expiry test that spares the key that expires this very second
SweepExpiredStrict(current_time, expiry) == current_time > expiry

\* line 147: remove if expired
SweepExpired(current_time, expiry) == current_time >= expiry

\* lines 141-148: whether the sweep deletes this key
SweepDeletes(key, current_time) ==
    /\ key_regex_match(key)
    /\ SweepExpired(current_time, key_expiry_time(key))

(***************************************************************************)
(* State.                                                                  *)
(***************************************************************************)
\* the request contexts; each owns one session object
Requests == {"r1", "r2"}

\* a session object that flask.Session() has just constructed: no
\* __kvstore_key attribute.  origin is a history field: how the object came
\* to be ("new", or from a token whose MAC was "verified" or "rejected").
NewSession == [data |-> EmptyMapping, hasKey |-> FALSE, key |-> <<>>,
               secret |-> SecretKey, origin |-> "new"]

\* the clock of the model
Clock == Epoch0..(Epoch0 + MaxTick)

\* the integer expiries a caller asks for: 0, and one instant the clock passes
ExpiryInputs == {0, Epoch0 + 1}

ExpiresInputs ==
    {NoExpires} \cup {IntExpires(n) : n \in ExpiryInputs}
                \cup {DatetimeExpires(Epoch0 + 1)}

\* the keys serialize can mint
MintableKeys ==
    {generate_session_key(i, e) : i \in RandBits(KeyBits), e \in ExpiresInputs}

\* keys of entries that something else put in the store
ForeignKeys == { <<"G", "1", "_", "a">>, <<"9">> }

\* a foreign key that ends in a newline
NewlineKey == <<"a", "_", "9", "\n">>

\* the MAC with its last character replaced by another hexadecimal digit
FlipLast(mac) ==
    SubSeq(mac, 1, Len(mac) - 1)
        \o <<HexDigits[((HexValue(mac[Len(mac)]) + 1) % 16) + 1]>>

\* the cookies a client may send: tokens this application issued, the same
\* keys with a MAC that is not theirs, and strings without an underscore
IssuedTokens == {SignedToken(SecretKey, k) : k \in MintableKeys}
ForgedTokens ==
    {SignedToken(Secrets[2], k) : k \in ForeignKeys}
    \cup {k \o <<"_">> \o FlipLast(HexDigest(SecretKey, k)) :
              k \in {generate_session_key(0, e) : e \in ExpiresInputs}}
MalformedTokens == { <<>>, <<"1", "a">> }
TokenInputs == IssuedTokens \cup ForgedTokens \cup MalformedTokens

\* removed: the keys the running sweep has called delete for; missed: those
\* of them that were no longer in the store when it did
NoSweep == [pc |-> "idle", time |-> 0, todo |-> {}, dirty |-> FALSE,
            removed |-> {}, missed |-> {}]

\* what out holds when the last step was no session operation
Quiet == [op |-> "none", err |-> "none", token |-> <<>>]

\* the application before KVSession(...) was called: no extension object,
\* no session_kvstore attribute, Flask's own open_session
NoApp == [ext |-> "none", kvstore |-> "unset", hooked |-> FALSE]

\* the application after KVSession(store, app)
ActiveApp == [ext |-> "constructed", kvstore |-> "bound", hooked |-> TRUE]

Init ==
    /\ store = [k \in ForeignKeys |-> ForeignData]
    /\ now = Epoch0
    /\ sess = [r \in Requests |-> NewSession]
    /\ out = Quiet
    /\ sweep = NoSweep
    /\ app = ActiveApp

\* the same, with one more foreign entry
InitSweep ==
    /\ store = [k \in ForeignKeys \cup {NewlineKey} |-> ForeignData]
    /\ now = Epoch0
    /\ sess = [r \in Requests |-> NewSession]
    /\ out = Quiet
    /\ sweep = NoSweep
    /\ app = ActiveApp

\* the session entries of the store
SessionEntries(st) == StoreKeys(st) \cap MintableKeys

(***************************************************************************)
(* Actions.                                                                *)
(***************************************************************************)
\* time passes
Tick ==
    /\ now < Epoch0 + MaxTick
    /\ now' = now + 1
    /\ out' = Quiet
    /\ UNCHANGED <<app, store, sess, sweep>>

\* a request starts with no cookie: flask.Session() is constructed
OpenNew(s) ==
    /\ sess[s] # NewSession
    /\ sess' = [sess EXCEPT ![s] = NewSession]
    /\ out' = Quiet
    /\ UNCHANGED <<app, store, now, sweep>>

\* the application writes its entries of the session mapping (dict semantics
\* of the base class); it leaves alone an '_expires' the base class put there
SetData(s, m) ==
    /\ m # WithoutExpires(sess[s].data)
    /\ sess' = [sess EXCEPT ![s].data = m \cup (@ \ WithoutExpires(@))]
    /\ out' = Quiet
    /\ UNCHANGED <<app, store, now, sweep>>

\* Session.serialize(expires): lines 70-89.  Payload and token are signed
\* with the secret_key of the session object; __kvstore_key is not assigned
\* to; the base class leaves '_expires' in the mapping.  The
\* model stops storing when the store holds cap session entries; out keeps
\* the request that called.
SerializeUpTo(s, expires, idbits, cap) ==
    /\ Cardinality(SessionEntries(store) \cup {SerializeKey(idbits, expires)})
          <= cap
    /\ store' = SerializeStore(store, sess[s].data, sess[s].secret, idbits,
                               expires)
    /\ sess' = [sess EXCEPT ![s].data = WithExpires(@, expires)]
    /\ out' = [op |-> "serialize", err |-> "none",
               token |-> SerializeToken(sess[s].secret, idbits, expires),
               by |-> s]
    /\ sweep' = IF sweep.pc = "idle" THEN sweep
                ELSE [sweep EXCEPT !.dirty = TRUE]
    /\ UNCHANGED <<app, now>>

Serialize(s, expires, idbits) == SerializeUpTo(s, expires, idbits, MaxEntries)

\* Session.unserialize(string, secret): lines 91-111.  When it raises, the
\* request gets no session object.
UnserializeUnder(s, string, secret, op) ==
    /\ LET err == UnserializeError(store, string, secret)
       IN  /\ sess' = IF err = "none"
                      THEN [sess EXCEPT
                              ![s] = UnserializeSession(store, string, secret,
                                                        now)]
                      ELSE sess
           /\ out' = [op |-> op, err |-> err, token |-> string]
    /\ UNCHANGED <<app, store, now, sweep>>

\* open_session: Session.unserialize(cookie, app.secret_key)
Unserialize(s, string) ==
    UnserializeUnder(s, string, SecretKey, "unserialize")

\* the same after app.secret_key was changed to another secret
UnserializeRotated(s, string) ==
    UnserializeUnder(s, string, Secrets[2], "unserialize_rotated")

\* a loop that deletes while it walks the live key list skips every other key
ClearedSkipping(data) ==
    {p \in data : p[1] # (CHOOSE k \in Keys(data) : TRUE)}

\* lines 65-66: for key in self.keys(): del self[key]
Cleared(data) == {p \in data : p[1] \notin Keys(data)}

\* a destroy that fetches the entry before it deletes it
DestroyErrorChecked(session, st) ==
    IF ~session.hasKey THEN "AttributeError"
    ELSE IF ~StoreHas(st, session.key) THEN "KeyError"
    ELSE "none"

\* lines 67-68: the exception destroy raises.  Reading self.__kvstore_key
\* raises AttributeError when it was never set; whatever delete raises is
\* not caught.
DestroyError(session, st) ==
    IF ~session.hasKey THEN "AttributeError"
    ELSE StoreDeleteError(st, session.key)

\* Session.destroy(): lines 56-68.  The mapping is cleared first.
Destroy(s) ==
    /\ sess' = [sess EXCEPT ![s].data = Cleared(@)]
    /\ store' = IF sess[s].hasKey THEN StoreDelete(store, sess[s].key)
                ELSE store
    /\ out' = [op |-> "destroy", err |-> DestroyError(sess[s], store),
               token |-> <<>>]
    /\ UNCHANGED <<app, now, sweep>>

\* cleanup_sessions(), lines 139-140: read the clock and take the keys
CleanupStart ==
    /\ sweep.pc # "run"
    /\ sweep' = [pc |-> IF StoreKeys(store) = {} THEN "done" ELSE "run",
                 time |-> now, todo |-> StoreKeys(store), dirty |-> FALSE,
                 removed |-> {}, missed |-> {}]
    /\ out' = Quiet
    /\ UNCHANGED <<app, store, now, sess>>

\* cleanup_sessions(), lines 141-148: one iteration of the loop, for key.
\* An exception of delete is not caught: it ends the sweep ("failed").
CleanupStep(key) ==
    /\ sweep.pc = "run"
    /\ key \in sweep.todo
    /\ LET del == SweepDeletes(key, sweep.time)
           err == IF del THEN StoreDeleteError(store, key) ELSE "none"
       IN  /\ store' = IF del THEN StoreDelete(store, key) ELSE store
           /\ sweep' = [sweep EXCEPT
                          !.todo = @ \ {key},
                          !.pc = IF err # "none" THEN "failed"
                                 ELSE IF sweep.todo = {key} THEN "done"
                                 ELSE "run",
                          !.removed = IF del THEN @ \cup {key} ELSE @,
                          !.missed = IF del /\ ~StoreHas(store, key)
                                     THEN @ \cup {key} ELSE @]
    /\ out' = Quiet
    /\ UNCHANGED <<app, now, sess>>

\* the exception KVSession.__init__ raises: line 125 assigns
\* app.session_kvstore before app is tested, and None takes no attribute
ConstructError(withApp) == IF withApp THEN "none" ELSE "AttributeError"

\* KVSession(session_kvstore, app) or KVSession(session_kvstore): lines
\* 124-128.  When __init__ raises, no extension object comes to exist.
Construct(withApp) ==
    /\ app.ext = "none"
    /\ app' = IF ConstructError(withApp) = "none" THEN ActiveApp ELSE app
    /\ out' = [op |-> "construct", err |-> ConstructError(withApp),
               token |-> <<>>, withApp |-> withApp]
    /\ UNCHANGED <<store, now, sess, sweep>>

\* ext.init_app(app) on an extension object: lines 150-158.  It installs
\* open_session and the configuration defaults; it does not assign
\* app.session_kvstore.
InitApp ==
    /\ app.ext = "constructed"
    /\ app' = [app EXCEPT !.hooked = TRUE]
    /\ out' = [op |-> "init_app", err |-> "none", token |-> <<>>]
    /\ UNCHANGED <<store, now, sess, sweep>>

\* requests are served once open_session is installed and the store bound
Serving == app.hooked /\ app.kvstore = "bound"

\* the cookie the client was just handed, if serialize was the last operation
ReturnedToken == IF out.op = "serialize" THEN {out.token} ELSE {}

\* the operations of one request context, in any order, on cookies of every
\* kind and at one instant
Next ==
    \/ OpenNew("r1")
    \/ \E m \in AppMappings : SetData("r1", m)
    \/ \E e \in ExpiresInputs, i \in RandBits(KeyBits) : Serialize("r1", e, i)
    \/ \E t \in TokenInputs \cup ReturnedToken : Unserialize("r1", t)
    \/ Destroy("r1")

Spec == Init /\ [][Next]_vars

\* sessions are stored and loaded while time passes and expirations come due
NextExpiry ==
    \/ Tick
    \/ \E m \in AppMappings : SetData("r1", m)
    \/ \E e \in ExpiresInputs, i \in RandBits(KeyBits) :
          SerializeUpTo("r1", e, i, MaxEntries + 1)
    \/ \E t \in IssuedTokens \cup ReturnedToken : Unserialize("r1", t)

SpecExpiry == Init /\ [][NextExpiry]_vars

\* the periodic sweep, step by step, while requests store sessions
NextSweep ==
    \/ Tick
    \/ \E e \in ExpiresInputs, i \in RandBits(KeyBits) : Serialize("r1", e, i)
    \/ CleanupStart
    \/ \E k \in sweep.todo : CleanupStep(k)

SpecSweep == InitSweep /\ [][NextSweep]_vars

\* the one expiry the sessions of the race are given, and their tokens
RaceExpires == IntExpires(Epoch0 + 1)
RaceTokens ==
    {SerializeToken(SecretKey, i, RaceExpires) : i \in RandBits(KeyBits)}

\* an empty store and a request whose new session the application wrote to
InitRace ==
    /\ store = [k \in {} |-> ForeignData]
    /\ now = Epoch0
    /\ sess = [r \in Requests |->
                 [NewSession EXCEPT
                    !.data = CHOOSE m \in AppMappings : m # EmptyMapping]]
    /\ out = Quiet
    /\ sweep = NoSweep
    /\ app = ActiveApp

\* a request that stores, loads and destroys sessions while the sweep runs
\* step by step: every store call of the one may fall between two store
\* calls of the other
NextRace ==
    \/ Tick
    \/ \E i \in RandBits(KeyBits) : Serialize("r1", RaceExpires, i)
    \/ \E t \in RaceTokens : Unserialize("r1", t)
    \/ Destroy("r1")
    \/ CleanupStart
    \/ \E k \in sweep.todo : CleanupStep(k)

SpecRace == InitRace /\ [][NextRace]_vars

\* sessions are stored under app.secret_key; their tokens come back to the
\* application as it is and to the application after its secret was rotated
NextRotate ==
    \/ \E m \in AppMappings : SetData("r1", m)
    \/ \E i \in RandBits(KeyBits) :
          SerializeUpTo("r1", NoExpires, i, MaxEntries + 1)
    \/ \E t \in IssuedTokens \cup ReturnedToken : Unserialize("r1", t)
    \/ \E t \in IssuedTokens \cup ReturnedToken : UnserializeRotated("r1", t)

SpecRotate == InitRace /\ [][NextRotate]_vars

\* every kind of expires value serialize hands to generate_session_key, at,
\* after and before the epoch
KeyExpires ==
    {NoExpires, IntExpires(0), IntExpires(Epoch0 + 1), IntExpires(1000),
     FloatExpires(2 * Epoch0 + 3), DatetimeExpires(Epoch0 + 1),
     IntExpires(-1), FloatExpires(-3), DatetimeExpires(-1)}

\* lines 77-82: serialize calls generate_session_key(SESSION_RANDOM_SOURCE,
\* expires, SESSION_KEY_BITS); out keeps the arguments and, as token, the key
GenerateKey(bits, idbits, expires) ==
    /\ out' = [op |-> "generate", err |-> "none",
               token |-> generate_session_key(idbits, expires),
               bits |-> bits, idbits |-> idbits, expires |-> expires]
    /\ UNCHANGED <<app, store, now, sess, sweep>>

NextKey ==
    \E bits \in 1..MaxBits, e \in KeyExpires :
        \E i \in RandBits(bits) : GenerateKey(bits, i, e)

SpecKey == Init /\ [][NextKey]_vars

\* the application before the extension is set up
InitNoApp ==
    /\ store = [k \in ForeignKeys |-> ForeignData]
    /\ now = Epoch0
    /\ sess = [r \in Requests |-> NewSession]
    /\ out = Quiet
    /\ sweep = NoSweep
    /\ app = NoApp

\* setting the extension up, with or without an application, and the
\* requests served afterwards
NextInit ==
    \/ \E withApp \in BOOLEAN : Construct(withApp)
    \/ InitApp
    \/ Serving /\ \E m \in AppMappings : SetData("r1", m)
    \/ Serving /\ \E e \in ExpiresInputs, i \in RandBits(KeyBits) :
                      Serialize("r1", e, i)
    \/ Serving /\ \E t \in IssuedTokens : Unserialize("r1", t)

SpecInit == InitNoApp /\ [][NextInit]_vars

\* the token of the session both requests of SpecTwo load
TwoToken == SerializeToken(SecretKey, 0, NoExpires)

\* the store after an earlier request serialized a non-empty session
InitTwo ==
    /\ store = SerializeStore([k \in ForeignKeys |-> ForeignData],
                              CHOOSE m \in AppMappings : m # EmptyMapping,
                              SecretKey, 0, NoExpires)
    /\ now = Epoch0
    /\ sess = [r \in Requests |-> NewSession]
    /\ out = Quiet
    /\ sweep = NoSweep
    /\ app = ActiveApp

\* two requests in flight with the same cookie: each loads the session,
\* writes to it and serializes it, in any order
NextTwo ==
    \/ \E s \in Requests : sess[s].origin = "new" /\ Unserialize(s, TwoToken)
    \/ \E s \in Requests, m \in AppMappings :
          sess[s].origin = "verified" /\ SetData(s, m)
    \/ \E s \in Requests, e \in {NoExpires, RaceExpires},
          i \in RandBits(KeyBits) :
          sess[s].origin = "verified"
              /\ SerializeUpTo(s, e, i, MaxEntries + 2)

SpecTwo == InitTwo /\ [][NextTwo]_vars

(***************************************************************************)
(* Properties.                                                             *)
(***************************************************************************)
\* the session object of the request the properties speak about
S == sess["r1"]

\* the token out holds has the form key_mac with a MAC that is not the key's
BadMac(string) ==
    /\ CanSplit(string)
    /\ TokenMac(string) # HexDigest(SecretKey, TokenKey(string))

\* the token out holds has the form key_mac with the MAC of its key
GoodMac(string) ==
    /\ CanSplit(string)
    /\ TokenMac(string) = HexDigest(SecretKey, TokenKey(string))

\* The key has the shape <hex>_<hex-expiry>: one or more hexadecimal digits,
\* an underscore, one or more hexadecimal digits, and nothing else.
HasKeyShape(key) ==
    \E i \in 2..(Len(key) - 1) :
        /\ key[i] = "_"
        /\ \A j \in 1..Len(key) : j # i => IsHexDigit(key[j])

\* the expiry embedded in a key (0 when the key has not the shape)
EmbeddedExpiry(key) ==
    IF HasKeyShape(key)
    THEN LET i == CHOOSE j \in 1..Len(key) : key[j] = "_"
         IN  ParseHex(SubSeq(key, i + 1, Len(key)))
    ELSE 0

\* the key without the one newline that may end it
WithoutNewline(key) ==
    IF Len(key) > 0 /\ key[Len(key)] = "\n"
    THEN SubSeq(key, 1, Len(key) - 1) ELSE key

\* the mapping a stored payload holds
PayloadMapping(sdata) == {sdata.items[i] : i \in 1..Len(sdata.items)}

\* the entries of a mapping that the application wrote
AppData(m) == {p \in m : p[1] # "_expires"}

\* an unserialize step that is given the token the serialize step before it
\* returned: nothing happened in between
RoundTripStep ==
    /\ out.op = "serialize"
    /\ out'.op = "unserialize"
    /\ out'.token = out.token

\* C1 as stated: for every session mapping and every expires value,
\* deserialize(serialize(session, expires), secret) with the same secret, the
\* untampered token and no store change in between returns, without raising,
\* a session whose mapping equals the original mapping (the entries the
\* application wrote: the base class's '_expires' entry is left aside).
C1_RoundTripAnyExpires ==
    [][RoundTripStep =>
          /\ out'.err = "none"
          /\ sess'["r1"].data = AppData(sess["r1"].data)]_vars

\* C1 amended: the round trip returns the original mapping without its
\* '_expires' entry whenever the expiration the payload records (the expires
\* given to serialize or, when none is given, an '_expires' that an earlier
\* serialize left in the mapping) is absent or has not passed when
\* deserialize runs.
C1_RoundTripUnexpired ==
    [][(/\ RoundTripStep
        /\ \A p \in sess["r1"].data : p[1] = "_expires" => now <= p[2])
       =>
          /\ out'.err = "none"
          /\ sess'["r1"].data = AppData(sess["r1"].data)]_vars

\* C1 witness: a non-empty mapping stored with an expiry that has not passed
\* has been loaded back from its token.
C1_Witness ==
    /\ out.op = "unserialize"
    /\ out.err = "none"
    /\ GoodMac(out.token)
    /\ S.data # EmptyMapping
    /\ EmbeddedExpiry(S.key) >= now

\* C2: for every token key_mac whose mac differs from MAC(secret, key),
\* deserialize does not raise and returns a session with an empty mapping,
\* never the payload stored under key, whatever the store holds.
C2_TamperedTokenLoadsNothing ==
    (out.op = "unserialize" /\ BadMac(out.token))
        => (out.err = "none" /\ S.data = EmptyMapping)

\* C2 witness: a token with a wrong MAC was deserialized while the store held
\* a non-empty, unexpired payload under the key of that token.
C2_Witness ==
    /\ out.op = "unserialize"
    /\ BadMac(out.token)
    /\ StoreHas(store, TokenKey(out.token))
    /\ SuperUnserialize(store[TokenKey(out.token)], SecretKey, now)
          # EmptyMapping
    /\ S.data = EmptyMapping

\* C3 as stated: a session returned for a token whose MAC failed has no
\* backing key, so destroy on that session leaves the store as it is.
C3_RejectedSessionCannotDelete ==
    [][(sess["r1"].origin = "rejected" /\ out'.op = "destroy")
          => store' = store]_vars

\* C4 as stated: the sweep never deletes a key whose embedded expiry is 0
\* (a session that never expires).
C4_NeverExpiringKeysSurvive ==
    \A k \in sweep.removed : ~(HasKeyShape(k) /\ EmbeddedExpiry(k) = 0)

\* a step of the sweep's loop
SweepStep == sweep.pc = "run" /\ sweep'.todo # sweep.todo

\* C5 as stated: a step of the sweep leaves in the store, with its payload,
\* every key that has not the shape <hex>_<hex-expiry> and every key of that
\* shape whose expiry is strictly greater than the sweep's current time.
C5_SweepLeavesOthersUntouched ==
    [][SweepStep =>
          \A k \in StoreKeys(store) :
              (~HasKeyShape(k) \/ EmbeddedExpiry(k) > sweep.time)
                  => (StoreHas(store', k) /\ store'[k] = store[k])]_vars

\* C6: when a sweep that read the clock at T has finished and no put came
\* in since it started, the store holds no key of the shape whose expiry is
\* non-zero and at most T (nor such a key followed by a newline).
C6_SweepRemovesExpired ==
    (sweep.pc = "done" /\ ~sweep.dirty)
        => \A k \in StoreKeys(store) :
              HasKeyShape(WithoutNewline(k))
                  => ~(/\ EmbeddedExpiry(WithoutNewline(k)) # 0
                       /\ EmbeddedExpiry(WithoutNewline(k)) <= sweep.time)

\* C6 witness: such a sweep has finished and deleted a session entry whose
\* non-zero expiry had passed.
C6_Witness ==
    /\ sweep.pc = "done"
    /\ ~sweep.dirty
    /\ \E k \in sweep.removed \cap MintableKeys : EmbeddedExpiry(k) # 0

\* C7: after destroy on a session loaded from a validly signed token the
\* mapping is empty and the key it was loaded from is not in the store
\* (store.get fails with not-found); destroy did not raise.
C7_DestroyClearsBoth ==
    (out.op = "destroy" /\ S.origin = "verified")
        => /\ out.err = "none"
           /\ S.data = EmptyMapping
           /\ ~StoreHas(store, S.key)

\* C7 witness: destroy has run on a session that was loaded from a validly
\* signed token.
C7_Witness ==
    /\ out.op = "destroy"
    /\ S.origin = "verified"
    /\ S.hasKey
    /\ ~StoreHas(store, S.key)

\* C8 as stated: a destroy that follows serialize succeeds and deletes the
\* entry that serialize wrote, also on a session that was never loaded.
C8_DestroyAfterSerialize ==
    [][(out.op = "serialize" /\ out'.op = "destroy")
          => /\ out'.err = "none"
             /\ ~StoreHas(store', TokenKey(out.token))]_vars

\* C9: deserialize of a validly signed token whose key embeds a non-zero
\* expiry that has passed (now > expiry), while the entry is still in the
\* store, does not raise and returns a session with an empty mapping.
C9_ExpiredTokenLoadsNothing ==
    (/\ out.op = "unserialize"
     /\ GoodMac(out.token)
     /\ StoreHas(store, TokenKey(out.token))
     /\ EmbeddedExpiry(TokenKey(out.token)) # 0
     /\ now > EmbeddedExpiry(TokenKey(out.token)))
        => (out.err = "none" /\ S.data = EmptyMapping)

\* C9 witness: an expired token was deserialized while the store still held
\* a payload with a non-empty mapping under its key.
C9_Witness ==
    /\ out.op = "unserialize"
    /\ GoodMac(out.token)
    /\ StoreHas(store, TokenKey(out.token))
    /\ AppData(PayloadMapping(store[TokenKey(out.token)])) # {}
    /\ EmbeddedExpiry(TokenKey(out.token)) # 0
    /\ now > EmbeddedExpiry(TokenKey(out.token))
    /\ S.data = EmptyMapping

\* C10 as stated: deserialize of a token with no underscore returns an
\* anonymous empty session and raises nothing.
C10_MalformedTokenNeverRaises ==
    (out.op = "unserialize" /\ ~CanSplit(out.token)) => out.err = "none"

\* C11: when the MAC of the token verifies but store.get(key) reports
\* not-found, deserialize does not raise: it returns a session with an empty
\* mapping that is still bound to that key.
C11_MissingPayloadLoadsEmpty ==
    (/\ out.op = "unserialize"
     /\ GoodMac(out.token)
     /\ ~StoreHas(store, TokenKey(out.token)))
        => /\ out.err = "none"
           /\ S.data = EmptyMapping
           /\ S.hasKey
           /\ S.key = TokenKey(out.token)

\* C11 witness: a token this application signed was deserialized while the
\* store held nothing under its key.
C11_Witness ==
    /\ out.op = "unserialize"
    /\ out.token \in IssuedTokens
    /\ ~StoreHas(store, TokenKey(out.token))
    /\ S.origin = "verified"
    /\ S.data = EmptyMapping

\* C12: deleting a key that is already absent never raises, be it a second
\* destroy of the same session, a second sweep, or a sweep and a destroy
\* that race on the same expired key: in every interleaving destroy returns,
\* the sweep goes on, and the key each of them deleted is absent afterwards.
C12_DeleteOfAbsentKeyCompletes ==
    [][/\ (out'.op = "destroy" /\ sess["r1"].hasKey)
            => /\ out'.err = "none"
               /\ ~StoreHas(store', sess["r1"].key)
       /\ sweep.pc = "run"
            => /\ sweep'.pc # "failed"
               /\ \A k \in sweep'.removed \ sweep.removed :
                      ~StoreHas(store', k)]_vars

\* C12 witness: a sweep has finished after it deleted the expired key of a
\* session that destroy had deleted since the sweep took its key list.
C12_Witness ==
    /\ sweep.pc = "done"
    /\ S.hasKey
    /\ S.key \in sweep.missed
    /\ EmbeddedExpiry(S.key) # 0
    /\ EmbeddedExpiry(S.key) <= sweep.time
    /\ ~StoreHas(store, S.key)

\* C13: a token that serialize produced under secret S1 and that is
\* deserialized under another secret S2 fails MAC verification and yields an
\* empty session, never the stored payload; the same token deserialized
\* under S1 always verifies.
C13_RotatedSecretRejectsTokens ==
    /\ (out.op = "unserialize_rotated" /\ out.token \in IssuedTokens)
          => /\ out.err = "none"
             /\ S.origin = "rejected"
             /\ S.data = EmptyMapping
    /\ (out.op = "unserialize" /\ out.token \in IssuedTokens)
          => /\ out.err = "none"
             /\ S.origin = "verified"

\* C13 witness: a token issued under the first secret was deserialized under
\* the second while the store held an unexpired, non-empty payload under
\* its key.
C13_Witness ==
    /\ out.op = "unserialize_rotated"
    /\ out.token \in IssuedTokens
    /\ StoreHas(store, TokenKey(out.token))
    /\ SuperUnserialize(store[TokenKey(out.token)], SecretKey, now)
          # EmptyMapping
    /\ S.data = EmptyMapping

\* the instant an expires value denotes, in whole seconds since the epoch
EpochSeconds(expires) ==
    IF expires.kind = "none" THEN 0
    ELSE IF expires.kind = "float"
    THEN (IF expires.v < 0 THEN -((-expires.v) \div 2) ELSE expires.v \div 2)
    ELSE expires.v

\* expires is absent or denotes an instant that is not before the epoch
NotBeforeEpoch(expires) == expires.kind = "none" \/ expires.v >= 0

\* key is hexid_hexexpiry: the id in lowercase hexadecimal without padding,
\* the expiry a hexadecimal number with the given value
KeyEncodes(key, idbits, seconds) ==
    /\ Cardinality(Underscores(key)) = 1
    /\ LET i == CHOOSE j \in Underscores(key) : TRUE
           first == SubSeq(key, 1, i - 1)
           second == SubSeq(key, i + 1, Len(key))
       IN  /\ IsHexString(first)
           /\ IsHexString(second)
           /\ ParseHex(first) = idbits
           /\ Len(first) = 1 \/ first[1] # "0"
           /\ ParseHex(second) = seconds

\* C14 as stated: for every random source, every expires and every bits
\* generate_session_key returns a string matching ^[0-9a-f]+_[0-9a-f]+$
\* whose first group is the random id in lowercase hex and whose second
\* group, parsed as hex, is the epoch seconds of expires, 0 when absent.
C14_KeyFormatAnyExpires ==
    out.op = "generate"
        => KeyEncodes(out.token, out.idbits, EpochSeconds(out.expires))

\* C14 amended: the same for every expires that is absent or not before
\* the epoch.
C14_KeyFormatFromEpoch ==
    (out.op = "generate" /\ NotBeforeEpoch(out.expires))
        => KeyEncodes(out.token, out.idbits, EpochSeconds(out.expires))

\* C14 witness: id 0x1a and expires 1000 gave the key 1a_3e8.
C14_Witness ==
    /\ out.op = "generate"
    /\ out.idbits = 26
    /\ out.expires = IntExpires(1000)
    /\ out.token = <<"1", "a", "_", "3", "e", "8">>

\* C20 as stated: for every expires serialize accepts (absent, an integer or
\* float epoch, a datetime) the key it mints matches key_regex and the
\* expiry cleanup_sessions parses from the key is the expiry that
\* generate_session_key encoded.
C20_MintedKeysAreRecognised ==
    out.op = "generate"
        => /\ key_regex_match(out.token)
           /\ key_expiry_time(out.token) = EpochSeconds(out.expires)

\* C20 amended: the same for every expires that is absent or not before
\* the epoch.
C20_MintedKeysFromEpochAreRecognised ==
    (out.op = "generate" /\ NotBeforeEpoch(out.expires))
        => /\ key_regex_match(out.token)
           /\ key_expiry_time(out.token) = EpochSeconds(out.expires)

\* C20 witness: a key was minted for a float epoch with a fraction and for
\* an id of more than one hexadecimal digit, and the sweep's pattern
\* matches it.
C20_Witness ==
    /\ out.op = "generate"
    /\ out.expires.kind = "float"
    /\ out.expires.v % 2 = 1
    /\ out.idbits > 15
    /\ key_regex_match(out.token)
    /\ SweepDeletes(out.token, EpochSeconds(out.expires))
    /\ ~SweepDeletes(out.token, EpochSeconds(out.expires) - 1)

\* C15 as stated: KVSession can be constructed with no application and
\* activated later by init_app(app): construction without an app does not
\* fail, and after init_app the application's session store is the store
\* given to the constructor.
C15_DeferredActivation ==
    /\ (out.op = "construct" /\ ~out.withApp)
          => (out.err = "none" /\ app.ext = "constructed")
    /\ out.op = "init_app" => app.kvstore = "bound"

\* C16: in every interleaving of cleanup_sessions with deserialize of a
\* validly signed token, deserialize does not raise and returns either the
\* session holding the stored payload or an empty session bound to the key
\* of the token; there is no other outcome.
C16_SweepDuringLoad ==
    (out.op = "unserialize" /\ GoodMac(out.token))
        => /\ out.err = "none"
           /\ S.hasKey
           /\ S.key = TokenKey(out.token)
           /\ \/ S.data = EmptyMapping
              \/ /\ StoreHas(store, S.key)
                 /\ S.data = AppData(PayloadMapping(store[S.key]))

\* C16 witness (entry gone): a validly signed token was deserialized after
\* the sweep had deleted its entry, at a time the payload had not expired
\* for the base class, and gave an empty session bound to the key.
C16_Witness ==
    /\ out.op = "unserialize"
    /\ GoodMac(out.token)
    /\ TokenKey(out.token) \in sweep.removed
    /\ ~StoreHas(store, TokenKey(out.token))
    /\ now <= EmbeddedExpiry(TokenKey(out.token))
    /\ S.data = EmptyMapping
    /\ S.key = TokenKey(out.token)

\* both requests hold the session loaded from the same token, one of them
\* has just serialized it and now the other does
TwoWrites ==
    /\ sess["r1"].origin = "verified"
    /\ sess["r2"].origin = "verified"
    /\ sess["r1"].key = sess["r2"].key
    /\ out.op = "serialize"
    /\ out'.op = "serialize"
    /\ out'.by # out.by

\* C17 as stated: when two concurrent requests load the same session from
\* the same token, mutate it and re-serialize, their writes race on that
\* session's store entry and the store ends with one payload for the
\* session, the one written by the later put.
C17_LastWriteWins ==
    [][TwoWrites =>
          /\ Cardinality(SessionEntries(store')) = 1
          /\ \A k \in SessionEntries(store') :
                PayloadMapping(store'[k]) = sess'[out'.by].data]_vars

\* C17 amended: each of the two serialize calls puts its payload under the
\* key it minted, so the later put leaves every other entry as it was, the
\* earlier write and the entry both were loaded from included; the later
\* put replaces the earlier payload only when it minted the same key.
C17_EachWriteHasItsOwnKey ==
    [][TwoWrites =>
          LET k1 == TokenKey(out.token)
              k2 == TokenKey(out'.token)
          IN  /\ StoreHas(store', k2)
              /\ PayloadMapping(store'[k2]) = sess'[out'.by].data
              /\ \A k \in StoreKeys(store) \ {k2} :
                    StoreHas(store', k) /\ store'[k] = store[k]
              /\ k1 # k2 =>
                    PayloadMapping(store'[k1]) = sess[out.by].data]_vars

\* C17 witness: both requests loaded the session of one token, wrote
\* different mappings and serialized; the store holds the entry they loaded
\* and, under two more keys, the payload of each.
C17_Witness ==
    /\ out.op = "serialize"
    /\ sess["r1"].origin = "verified"
    /\ sess["r2"].origin = "verified"
    /\ sess["r1"].key = sess["r2"].key
    /\ sess["r1"].data # sess["r2"].data
    /\ StoreHas(store, sess["r1"].key)
    /\ \E k1, k2 \in SessionEntries(store) \ {sess["r1"].key} :
          /\ k1 # k2
          /\ PayloadMapping(store[k1]) = sess["r1"].data
          /\ PayloadMapping(store[k2]) = sess["r2"].data

\* C19: serialize only adds to the store: every serialize puts its payload
\* under the key it minted and leaves every entry that was there before,
\* the one under the key the session was loaded from included, present
\* and unchanged, unless the minted key is that entry's key.
C19_SerializeOnlyAdds ==
    [][out'.op = "serialize" =>
          /\ StoreHas(store', TokenKey(out'.token))
          /\ \A k \in StoreKeys(store) \ {TokenKey(out'.token)} :
                StoreHas(store', k) /\ store'[k] = store[k]]_vars

\* C19 witness: a session loaded from a token was changed and serialized
\* under another key, and the entry it was loaded from is still in the store
\* with the earlier payload.
C19_Witness ==
    /\ out.op = "serialize"
    /\ sess[out.by].origin = "verified"
    /\ TokenKey(out.token) # sess[out.by].key
    /\ StoreHas(store, sess[out.by].key)
    /\ PayloadMapping(store[sess[out.by].key]) # sess[out.by].data
    /\ PayloadMapping(store[TokenKey(out.token)]) = sess[out.by].data
    /\ \E k \in StoreKeys(store) : ~HasKeyShape(k)

\* C18 as stated: destroy on a session that has no backing key reports a
\* usage error immediately: the error is raised before the in-memory mapping
\* is cleared and no store.delete is issued, so mapping and store are as
\* they were.
C18_KeylessDestroyChangesNothing ==
    [][(~sess["r1"].hasKey /\ out'.op = "destroy")
          => /\ out'.err # "none"
             /\ sess' = sess
             /\ store' = store]_vars

====
